---------------------------- MODULE Spec2Model ----------------------------
(***************************************************************************)
(* CCF-ZKCS: the MerkleDAG index (merkle_dag.py), the CacheManager over    *)
(* segment files (cache_manager.py) and the handler's cache key            *)
(* (handler.py), as a state machine.                                       *)
(***************************************************************************)
EXTENDS Integers, Sequences, FiniteSets, TLC

VARIABLES
    nodes,             \* MerkleDAG.nodes: the dict, as the sequence of its nodes in insertion order
    root_keys,         \* MerkleDAG.root_keys: a list of cache keys
    total_size_bytes,  \* MerkleDAG._total_size_bytes
    files,             \* the cache directory: cache key -> file bytes, NoFile when absent
    now,               \* what time.time() returns
    ret,               \* the last call: its operation, argument, outcome and returned value
    prev,              \* the call before the last get_cache_key call
    inflight,          \* per request thread, the call it is in the middle of
    metrics,           \* CCFZKCSHandler.metrics
    mmaps,             \* the mmap objects read_cache created that are still referenced
    open_mmaps,        \* CacheManager.open_mmaps: the WeakSet, as the set of its members
    fds,               \* the descriptors read_cache calls have open, and closes gone wrong
    handler            \* CCFZKCSHandler.__init__: the host it runs on, how far it got, where its secrets came from

\* the mappings and the descriptors
handles == <<mmaps, open_mmaps, fds>>

vars == <<nodes, root_keys, total_size_bytes, files, now, ret, prev, inflight,
          metrics, handles, handler>>

----------------------------------------------------------------------------
(* Bounds of the model and scaled program constants *)

\* cache keys in use (32-byte digests in the program; three distinct ones here)
Keys == {1, 2, 3}
\* the keys the cache manager is driven with
CacheKeys == {1, 2}
\* the request threads whose calls are followed step by step
Threads == {1, 2}
\* parent_key = None
None == 0
\* an absent file
NoFile == <<-1>>

\* length of the integrity tag, and of a BLAKE3 digest
HMAC_LEN == 32
\* config.MAX_FANOUT, scaled down
MAX_FANOUT == 1
\* config.MAX_SEGMENT_MB * 1024 ** 2, scaled down to bytes
MAX_SEGMENT_BYTES == 1
\* config.MAX_TOTAL_CACHE_GB * 1024 ** 3, scaled down: one segment fits, two do not
MAX_TOTAL_CACHE_BYTES == 40
\* config.MAX_TOKENS_PER_REQUEST, scaled down
MAX_TOKENS_PER_REQUEST == 2
\* get_lru_nodes(limit=1000) in _enforce_cache_limit
LRU_LIMIT == 1000
\* bytes() accepts range(0, 256)
BYTE_RANGE == 256

\* the clock stops here
MaxTime == 1
\* refcounts are explored up to here
MaxRefcount == 1
\* a node is pinned and unpinned up to this many times in a row
MaxPins == 2
\* _total_size_bytes is explored up to here
MaxTrackedTotal == 70

\* the latency samples kept in metrics["p95_latency_ms"] (1000 in the program),
\* scaled down
MAX_LATENCY_SAMPLES == 2
\* compute_saved_ms = len(tokens) * 4
COMPUTE_MS_PER_TOKEN == 4
\* requests are followed up to this many
MaxRequests == 3
\* the latencies requests measure, in ms
Latencies == {1, 2}
\* the mmap objects callers hold at a time
MmapIds == {1, 2}

\* payload bytes written by callers
PayloadBytes == {1}
\* sizes given to add_node when called directly
DirectSizes == {20}
\* token values given to get_cache_key
TokenValues == {0, 1, 255, 256}

----------------------------------------------------------------------------
(* Sequences *)

Range(s) == {s[i] : i \in 1..Len(s)}

Min2(a, b) == IF a <= b THEN a ELSE b

\* the least element of a set of integers
Min(S) == CHOOSE x \in S : \A y \in S : x <= y

\* all sequences over S of length at most n
RECURSIVE SeqsUpTo(_, _)
SeqsUpTo(S, n) ==
    IF n = 0 THEN {<<>>}
    ELSE LET shorter == SeqsUpTo(S, n - 1)
         IN  shorter \cup {Append(s, x) : s \in {t \in shorter : Len(t) = n - 1}, x \in S}

\* list.remove(x): drops the first occurrence
RemoveFirst(s, x) ==
    IF x \notin Range(s) THEN s
    ELSE LET i == CHOOSE j \in 1..Len(s) : s[j] = x /\ \A m \in 1..(j - 1) : s[m] # x
         IN  SubSeq(s, 1, i - 1) \o SubSeq(s, i + 1, Len(s))

\* s[:n]
Take(s, n) == SubSeq(s, 1, Min2(n, Len(s)))

\* the place of s[i] once s is sorted by access_timestamp: after the older
\* nodes and, the sort being stable, after the equally old ones before it in s
Rank(s, i) ==
    1 + Cardinality({j \in 1..Len(s) :
                        \/ s[j].access_timestamp < s[i].access_timestamp
                        \/ s[j].access_timestamp = s[i].access_timestamp /\ j < i})

\* evictable.sort(key=lambda n: n.access_timestamp): a stable sort
SortByAccess(s) == [r \in 1..Len(s) |-> s[CHOOSE i \in 1..Len(s) : Rank(s, i) = r]]

\* [n for n in s if n.refcount == 0]
Unpinned(s) == SelectSeq(s, LAMBDA n : n.refcount = 0)

\* the element of a one-element set: The({F(x) : x \in {call}}) is F applied to
\* the result of the call, the call being made once
The(S) == CHOOSE x \in S : TRUE

\* the sizes of the first n nodes of s, added up
RECURSIVE SumFirst(_, _)
SumFirst(s, n) == IF n = 0 THEN 0 ELSE s[n].size_bytes + SumFirst(s, n - 1)

SumSizes(s) == SumFirst(s, Len(s))

\* n zero bytes
Zeros(n) == [i \in 1..n |-> 0]

----------------------------------------------------------------------------
(* BLAKE3 and the keyed tag.  The digest is 32 bytes and, as collision      *)
(* resistance has it, differs for different inputs: the input's length,     *)
(* the input, zero padding (inputs here are shorter than 32 bytes).         *)

blake3(data) == Take(<<Len(data)>> \o data \o Zeros(HMAC_LEN), HMAC_LEN)

\* the integrity key fetched from the secret store
hmac_key == 9

_compute_hmac(data) == blake3(<<hmac_key>> \o data)

----------------------------------------------------------------------------
(* MerkleNode and the dict MerkleDAG.nodes *)

\* MerkleNode(cache_key, parent_key, size_bytes, access_timestamp): a fresh node
MerkleNode(k, p, size, t) ==
    [cache_key |-> k, parent_key |-> p, children_keys |-> <<>>,
     refcount |-> 0, size_bytes |-> size, access_timestamp |-> t]

\* key in self.nodes
HasNode(ns, k) == \E i \in 1..Len(ns) : ns[i].cache_key = k

NodeIndex(ns, k) == CHOOSE i \in 1..Len(ns) : ns[i].cache_key = k

\* self.nodes[key]
get_node(ns, k) == ns[NodeIndex(ns, k)]

\* self.nodes[n.cache_key] = n: an existing key keeps its place in the dict
SetNode(ns, n) ==
    IF HasNode(ns, n.cache_key) THEN [ns EXCEPT ![NodeIndex(ns, n.cache_key)] = n]
    ELSE Append(ns, n)

\* del self.nodes[key]
DelNode(ns, k) ==
    LET i == NodeIndex(ns, k) IN SubSeq(ns, 1, i - 1) \o SubSeq(ns, i + 1, Len(ns))

NodeKeys(ns) == {ns[i].cache_key : i \in 1..Len(ns)}

\* a parent that has MAX_FANOUT children or more
Full(ns, p) == HasNode(ns, p) /\ Len(get_node(ns, p).children_keys) >= MAX_FANOUT

\* MerkleNode.remove_child
remove_child(n, c) == [n EXCEPT !.children_keys = RemoveFirst(@, c)]

\* the state of a MerkleDAG
Dag(ns, roots, total) == [nodes |-> ns, root_keys |-> roots, total |-> total]

\* what a call leaves: the index and the exception raised, "none" when it returns
Outcome(d, e) == [dag |-> d, exc |-> e]

----------------------------------------------------------------------------
(* MerkleDAG.add_node *)

\* add_node with an add_child that does not look at the fanout
add_node_NoFanoutCheck(d, k, p, size, t) ==
    IF p # None /\ ~HasNode(d.nodes, p) THEN Outcome(d, "ValueError")
    ELSE
        LET linked ==
                IF p # None
                THEN LET parent == get_node(d.nodes, p)
                     IN  IF k \in Range(parent.children_keys) THEN d.nodes
                         ELSE SetNode(d.nodes,
                                      [parent EXCEPT !.children_keys = Append(@, k)])
                ELSE d.nodes
            roots == IF p = None THEN Append(d.root_keys, k) ELSE d.root_keys
        IN  Outcome(Dag(SetNode(linked, MerkleNode(k, p, size, t)), roots, d.total + size),
                    "none")

\* add_node storing the node and counting its size before it calls add_child
add_node_StoreFirst(d, k, p, size, t) ==
    IF p # None /\ ~HasNode(d.nodes, p) THEN Outcome(d, "ValueError")
    ELSE
        LET stored == Dag(SetNode(d.nodes, MerkleNode(k, p, size, t)), d.root_keys,
                          d.total + size)
        IN  IF p = None
            THEN Outcome([stored EXCEPT !.root_keys = Append(@, k)], "none")
            ELSE IF Len(get_node(stored.nodes, p).children_keys) >= MAX_FANOUT
            THEN Outcome(stored, "ValueError")
            ELSE IF k \in Range(get_node(stored.nodes, p).children_keys)
            THEN Outcome(stored, "none")
            ELSE Outcome([stored EXCEPT !.nodes =
                              SetNode(@, [get_node(@, p) EXCEPT
                                              !.children_keys = Append(@, k)])],
                         "none")

\* add_node that, for a key already in the index, keeps the children of the
\* node it replaces
add_node_KeepChildren(d, k, p, size, t) ==
    IF p # None /\ ~HasNode(d.nodes, p) THEN Outcome(d, "ValueError")
    ELSE IF p # None /\ Len(get_node(d.nodes, p).children_keys) >= MAX_FANOUT
         THEN Outcome(d, "ValueError")
    ELSE
        LET linked ==
                IF p # None
                THEN LET parent == get_node(d.nodes, p)
                     IN  IF k \in Range(parent.children_keys) THEN d.nodes
                         ELSE SetNode(d.nodes,
                                      [parent EXCEPT !.children_keys = Append(@, k)])
                ELSE d.nodes
            roots == IF p = None THEN Append(d.root_keys, k) ELSE d.root_keys
            node == IF HasNode(linked, k)
                    THEN [MerkleNode(k, p, size, t) EXCEPT
                              !.children_keys = get_node(linked, k).children_keys]
                    ELSE MerkleNode(k, p, size, t)
        IN  Outcome(Dag(SetNode(linked, node), roots, d.total + size), "none")

add_node(d, k, p, size, t) ==
    IF p # None /\ ~HasNode(d.nodes, p) THEN Outcome(d, "ValueError")
    ELSE IF p # None /\ Len(get_node(d.nodes, p).children_keys) >= MAX_FANOUT
         THEN Outcome(d, "ValueError")
    ELSE
        LET linked ==
                IF p # None
                THEN LET parent == get_node(d.nodes, p)
                     IN  IF k \in Range(parent.children_keys) THEN d.nodes
                         ELSE SetNode(d.nodes,
                                      [parent EXCEPT !.children_keys = Append(@, k)])
                ELSE d.nodes
            roots == IF p = None THEN Append(d.root_keys, k) ELSE d.root_keys
        IN  Outcome(Dag(SetNode(linked, MerkleNode(k, p, size, t)), roots, d.total + size),
                    "none")

----------------------------------------------------------------------------
(* MerkleDAG.remove_node, with its cascade over the children *)

\* the first steps of remove_node on an unpinned node k: detach it from its
\* parent's children, or else from root_keys
Detach(d, k) ==
    LET node == get_node(d.nodes, k)
    IN  IF node.parent_key # None /\ HasNode(d.nodes, node.parent_key)
        THEN [d EXCEPT !.nodes =
                  SetNode(@, remove_child(get_node(@, node.parent_key), k))]
        ELSE [d EXCEPT !.root_keys = RemoveFirst(@, k)]

RECURSIVE remove_node(_, _)
RECURSIVE RemoveChildren(_, _)

\* for child_key in node.children_keys[:]: remove the unpinned ones that are still there
RemoveChildren(o, cs) ==
    IF cs = <<>> \/ o.exc # "none" THEN o
    ELSE The({RemoveChildren(next, Tail(cs)) :
              next \in {IF /\ HasNode(o.dag.nodes, cs[1])
                           /\ get_node(o.dag.nodes, cs[1]).refcount = 0
                        THEN remove_node(o.dag, cs[1])
                        ELSE o}})

remove_node(d, k) ==
    IF ~HasNode(d.nodes, k) THEN Outcome(d, "none")
    ELSE IF get_node(d.nodes, k).refcount > 0 THEN Outcome(d, "ValueError")
    ELSE
        The({The({IF o.exc # "none" THEN o
                  ELSE The({IF ~HasNode(d2.nodes, k) THEN Outcome(d2, "KeyError")
                            ELSE Outcome([d2 EXCEPT !.nodes = DelNode(@, k)], "none") :
                            d2 \in {[o.dag EXCEPT !.total =
                                         @ - get_node(d1.nodes, k).size_bytes]}}) :
                  o \in {RemoveChildren(Outcome(d1, "none"),
                                        get_node(d1.nodes, k).children_keys)}}) :
             d1 \in {Detach(d, k)}})

----------------------------------------------------------------------------
(* MerkleDAG.get_total_size_bytes, get_lru_nodes; the refcount methods *)

get_total_size_bytes(d) == d.total

\* get_lru_nodes without its filter on refcount
get_lru_nodes_NoFilter(d, limit) == Take(SortByAccess(d.nodes), limit)

\* get_lru_nodes without its sort
get_lru_nodes_NoSort(d, limit) == Take(Unpinned(d.nodes), limit)

get_lru_nodes(d, limit) == Take(SortByAccess(Unpinned(d.nodes)), limit)

\* MerkleNode.increment_refcount on the node of key k
increment_refcount(d, k) ==
    Outcome([d EXCEPT !.nodes = SetNode(@, [get_node(@, k) EXCEPT !.refcount = @ + 1])],
            "none")

\* decrement_refcount without its check of the refcount
decrement_refcount_NoCheck(d, k) ==
    Outcome([d EXCEPT !.nodes = SetNode(@, [get_node(@, k) EXCEPT !.refcount = @ - 1])],
            "none")

\* MerkleNode.decrement_refcount on the node of key k
decrement_refcount(d, k) ==
    IF get_node(d.nodes, k).refcount <= 0 THEN Outcome(d, "ValueError")
    ELSE Outcome([d EXCEPT !.nodes =
                      SetNode(@, [get_node(@, k) EXCEPT !.refcount = @ - 1])],
                 "none")

----------------------------------------------------------------------------
(* CacheManager: segment files *)

\* cache_file.exists()
Exists(fs, k) == fs[k] # NoFile

\* cache_file.unlink() after "if cache_file.exists()"
Unlink(fs, k) == [fs EXCEPT ![k] = NoFile]

\* the file write_cache writes: [HMAC (32 bytes)][data]
Segment(data) == _compute_hmac(data) \o data

\* f.read(32)
StoredHmac(file) == Take(file, HMAC_LEN)

\* f.read(min(MAX_SEGMENT_MB * 1024 ** 2, st_size - 32)) after the tag
StoredData(file) ==
    SubSeq(file, HMAC_LEN + 1, HMAC_LEN + Min2(MAX_SEGMENT_BYTES, Len(file) - HMAC_LEN))

\* hmac.compare_digest(expected_hmac, stored_hmac)
Verifies(file) == _compute_hmac(StoredData(file)) = StoredHmac(file)

\* what a CacheManager call leaves: index, files, exception ("none": it returned),
\* and the returned value (a view's bytes; <<>> with hit FALSE for None)
Result(d, fs, e, hit, view) ==
    [dag |-> d, files |-> fs, exc |-> e, hit |-> hit, value |-> view]

----------------------------------------------------------------------------
(* CacheManager._enforce_cache_limit *)

\* the loop over lru_nodes leaving without evicting anything
EvictLoop_NoEviction(st, lru, bytes_to_evict) == st

\* the loop over lru_nodes; st = [dag, files, exc, evicted]
RECURSIVE EvictLoop(_, _, _)
EvictLoop(st, lru, bytes_to_evict) ==
    IF lru = <<>> \/ st.exc # "none" \/ st.evicted >= bytes_to_evict THEN st
    ELSE LET node == lru[1]
         IN  IF node.refcount > 0 THEN EvictLoop(st, Tail(lru), bytes_to_evict)
             ELSE The({EvictLoop(next, Tail(lru), bytes_to_evict) :
                       next \in {[dag |-> o.dag,
                                  files |-> Unlink(st.files, node.cache_key),
                                  exc |-> o.exc,
                                  evicted |-> st.evicted + node.size_bytes] :
                                 o \in {remove_node(st.dag, node.cache_key)}}})

_enforce_cache_limit(d, fs) ==
    LET current_bytes == get_total_size_bytes(d)
    IN  IF current_bytes <= MAX_TOTAL_CACHE_BYTES THEN Result(d, fs, "none", FALSE, <<>>)
        ELSE The({Result(st.dag, st.files, st.exc, FALSE, <<>>) :
                  st \in {EvictLoop([dag |-> d, files |-> fs, exc |-> "none",
                                     evicted |-> 0],
                                    lru_nodes,
                                    current_bytes - MAX_TOTAL_CACHE_BYTES) :
                          lru_nodes \in {get_lru_nodes(d, LRU_LIMIT)}}})

----------------------------------------------------------------------------
(* CacheManager.write_cache.  io: "ok", or "OSError" when open() or write()  *)
(* fails.                                                                   *)

\* the except OSError handler leaving the file in place
RollBack_NoUnlink(fs, k) == fs

\* except OSError: if cache_file.exists(): cache_file.unlink()
RollBack(fs, k) == Unlink(fs, k)

\* write_cache running its eviction cycle before it looks at the size of data
write_cache_EvictFirst(d, fs, k, data, p, t, io) ==
    The({IF e.exc # "none" THEN e
         ELSE IF Len(data) > MAX_SEGMENT_BYTES
              THEN Result(e.dag, e.files, "ValueError", FALSE, <<>>)
         ELSE IF io = "OSError"
              THEN Result(e.dag, RollBack(e.files, k), "OSError", FALSE, <<>>)
         ELSE The({Result(a.dag, [e.files EXCEPT ![k] = Segment(data)], a.exc,
                          FALSE, <<>>) :
                   a \in {add_node(e.dag, k, p, Len(data) + HMAC_LEN, t)}}) :
         e \in {_enforce_cache_limit(d, fs)}})

write_cache(d, fs, k, data, p, t, io) ==
    IF Len(data) > MAX_SEGMENT_BYTES THEN Result(d, fs, "ValueError", FALSE, <<>>)
    ELSE
        The({IF e.exc # "none" THEN e
             ELSE IF io = "OSError"
                  \* Rollback: delete partial file
                  THEN Result(e.dag, RollBack(e.files, k), "OSError", FALSE, <<>>)
             ELSE The({Result(a.dag, [e.files EXCEPT ![k] = Segment(data)], a.exc,
                              FALSE, <<>>) :
                       a \in {add_node(e.dag, k, p, Len(data) + HMAC_LEN, t)}}) :
             e \in {_enforce_cache_limit(d, fs)}})

----------------------------------------------------------------------------
(* CacheManager.read_cache.  io: "ok"; "OSError" when open(cache_file)       *)
(* raises, "read" when f.read() does; once the tag compared equal, "os.open" *)
(* when os.open() raises, "mmap" when mmap.mmap() does, "fadvise" when       *)
(* os.posix_fadvise() does.                                                 *)

\* except Exception: unlink the file if it exists, remove the node, return None;
\* a ValueError of remove_node leaves the handler
CleanUpOnError(d, fs, k) ==
    The({Result(o.dag, Unlink(fs, k), o.exc, FALSE, <<>>) : o \in {remove_node(d, k)}})

read_cache(d, fs, k, t, io) ==
    IF ~Exists(fs, k) THEN Result(d, fs, "none", FALSE, <<>>)
    ELSE IF ~HasNode(d.nodes, k) THEN Result(d, fs, "none", FALSE, <<>>)
    ELSE IF io \in {"OSError", "read"} THEN CleanUpOnError(d, fs, k)
    ELSE IF ~Verifies(fs[k])
         THEN \* Corruption detected - delete cache file
              The({IF o.exc = "none"
                   THEN Result(o.dag, Unlink(fs, k), "none", FALSE, <<>>)
                   ELSE CleanUpOnError(o.dag, Unlink(fs, k), k) :
                   o \in {remove_node(d, k)}})
    ELSE IF io \in {"os.open", "mmap", "fadvise"} THEN CleanUpOnError(d, fs, k)
    ELSE \* mmap.mmap(fd, length=0, ...): the view is the entire file
         Result([d EXCEPT !.nodes = SetNode(@, [get_node(@, k) EXCEPT !.access_timestamp = t])],
                fs, "none", TRUE, fs[k])

----------------------------------------------------------------------------
(* The descriptors of read_cache: f of "with open(cache_file, 'rb') as f"     *)
(* and fd of os.open(cache_file, os.O_RDONLY)                                *)

\* a descriptor event: op is "open" or "close"
FdEvent(op, h) == [op |-> op, fd |-> h]

\* the with block: the file is opened, and closed as the block is left
WithFile == <<FdEvent("open", "f"), FdEvent("close", "f")>>

\* the descriptor events of a read_cache call whose finally clause is missing
FdEvents_NoFinally(d, fs, k, io) ==
    IF ~Exists(fs, k) \/ ~HasNode(d.nodes, k) THEN <<>>
    ELSE IF io = "OSError" THEN <<>>
    ELSE IF io = "read" \/ ~Verifies(fs[k]) \/ io = "os.open" THEN WithFile
    ELSE IF io \in {"mmap", "fadvise"} THEN WithFile \o <<FdEvent("open", "fd")>>
    ELSE WithFile \o <<FdEvent("open", "fd"), FdEvent("close", "fd")>>

\* the descriptor events of read_cache(k), in order
FdEvents(d, fs, k, io) ==
    IF ~Exists(fs, k) \/ ~HasNode(d.nodes, k) THEN <<>>
    \* open() raised: nothing was opened
    ELSE IF io = "OSError" THEN <<>>
    \* the with block is left by the exception, the mismatch return, or normally
    ELSE IF io = "read" \/ ~Verifies(fs[k]) \/ io = "os.open" THEN WithFile
    \* fd = os.open(...); try: ... finally: os.close(fd)
    ELSE WithFile \o <<FdEvent("open", "fd"), FdEvent("close", "fd")>>

\* the descriptor table: the descriptors open, and whether a close was given a
\* descriptor that is not open (EBADF)
NoFds == [open |-> {}, bad_close |-> FALSE]

DoFd(table, ev) ==
    IF ev.op = "open" THEN [table EXCEPT !.open = @ \cup {ev.fd}]
    ELSE IF ev.fd \in table.open THEN [table EXCEPT !.open = @ \ {ev.fd}]
    ELSE [table EXCEPT !.bad_close = TRUE]

RECURSIVE DoFds(_, _)
DoFds(table, evs) ==
    IF evs = <<>> THEN table ELSE DoFds(DoFd(table, evs[1]), Tail(evs))

----------------------------------------------------------------------------
(* CCFZKCSHandler.get_cache_key *)

\* insertion of x into an ascending sequence of integers
RECURSIVE InsertInt(_, _)
InsertInt(s, x) ==
    IF s = <<>> THEN <<x>>
    ELSE IF s[1] <= x THEN <<s[1]>> \o InsertInt(Tail(s), x)
    ELSE <<x>> \o s

\* sorted(tokens)
RECURSIVE sorted(_)
sorted(tokens) ==
    IF tokens = <<>> THEN <<>> ELSE InsertInt(sorted(Tail(tokens)), tokens[1])

\* bytes(list) raises ValueError unless every element is in range(0, 256)
BytesOk(s) == \A i \in 1..Len(s) : s[i] >= 0 /\ s[i] < BYTE_RANGE

\* get_cache_key hashing the tokens in the order given
get_cache_key_Unsorted(tokens) ==
    IF Len(tokens) > MAX_TOKENS_PER_REQUEST THEN [exc |-> "ValueError", key |-> <<>>]
    ELSE IF ~BytesOk(tokens) THEN [exc |-> "ValueError", key |-> <<>>]
    ELSE [exc |-> "none", key |-> blake3(tokens)]

\* [exc, key]: the exception raised ("none": it returned) and the key returned
get_cache_key(tokens) ==
    IF Len(tokens) > MAX_TOKENS_PER_REQUEST THEN [exc |-> "ValueError", key |-> <<>>]
    ELSE IF ~BytesOk(sorted(tokens)) THEN [exc |-> "ValueError", key |-> <<>>]
    ELSE [exc |-> "none", key |-> blake3(sorted(tokens))]

----------------------------------------------------------------------------
(* CCFZKCSHandler.process_request *)

\* the digests the modelled requests produce, in the order of the small integers
\* that name cache keys in the index and the cache directory
KnownDigests == <<blake3(<<2>>), blake3(<<1, 2>>)>>

\* the name of a digest as a cache key
CacheKeyOf(digest) == CHOOSE k \in 1..Len(KnownDigests) : KnownDigests[k] = digest

\* process_request(tokens, force_cold_start).  data: the bytes the compute step
\* (_simulate_inference) yields; io_read, io_write: what the I/O of read_cache
\* and write_cache does; timed_out: the lookup took longer than
\* CACHE_LOOKUP_TIMEOUT_MS.  In the result, hit is cache_hit; the compute step
\* runs exactly when cache_hit is false.
process_request(d, fs, tokens, force_cold_start, data, t, io_read, io_write, timed_out) ==
    The({IF ck.exc # "none" THEN Result(d, fs, ck.exc, FALSE, <<>>)
         ELSE The({IF r.exc # "none" THEN r
                   ELSE IF r.hit /\ ~timed_out
                   THEN Result(r.dag, r.files, "none", TRUE, <<>>)
                   \* cache miss: full inference, then write_cache in
                   \* try / except Exception: non-fatal
                   ELSE The({Result(w.dag, w.files, "none", FALSE, <<>>) :
                             w \in {write_cache(r.dag, r.files, CacheKeyOf(ck.key),
                                                data, None, t, io_write)}}) :
                   r \in {IF force_cold_start THEN Result(d, fs, "none", FALSE, <<>>)
                          ELSE read_cache(d, fs, CacheKeyOf(ck.key), t, io_read)}}) :
         ck \in {get_cache_key(tokens)}})

\* self.metrics as __init__ leaves it
NoMetrics ==
    [cache_hits |-> 0, cache_misses |-> 0, total_requests |-> 0,
     total_compute_saved_ms |-> 0, p95_latency_ms |-> <<>>]

\* the truncation of the latency list keeping its first n samples
KeepLast_First(s, n) == IF Len(s) > n THEN SubSeq(s, 1, n) ELSE s

\* if len(s) > n: s = s[-n:]
KeepLast(s, n) == IF Len(s) > n THEN SubSeq(s, Len(s) - n + 1, Len(s)) ELSE s

\* self.metrics after process_request; r is what process_request did to the
\* cache, latency_ms the latency it measured
process_request_metrics(m, tokens, force_cold_start, r, latency_ms) ==
    The({IF r.exc # "none" THEN counted
         ELSE The({[looked EXCEPT !.p95_latency_ms =
                        KeepLast(Append(@, latency_ms), MAX_LATENCY_SAMPLES)] :
                   looked \in {IF force_cold_start THEN counted
                               ELSE IF r.hit
                               THEN [counted EXCEPT
                                        !.cache_hits = @ + 1,
                                        !.total_compute_saved_ms =
                                            @ + Len(tokens) * COMPUTE_MS_PER_TOKEN]
                               ELSE [counted EXCEPT !.cache_misses = @ + 1]}}) :
         counted \in {[m EXCEPT !.total_requests = @ + 1]}})

\* an item of a dict: its key, the Python type of its value, its value
Item(name, type, value) == [name |-> name, type |-> type, value |-> value]

\* the dict process_request returns; on a hit kv_cache_data is the mmap, on a
\* miss the bytes of the compute step
Response(tokens, r, data, latency_ms) ==
    <<Item("cache_key", "str", get_cache_key(tokens).key),
      Item("cache_hit", "bool", r.hit),
      Item("latency_ms", "float", latency_ms),
      Item("tokens_processed", "int", Len(tokens)),
      Item("kv_cache_size_bytes", "int", IF r.hit THEN 0 ELSE Len(data))>>

\* the mapping the lookup of process_request returned, as the request ends:
\* "none" when the lookup returned no mapping, "closed" after kv_cache_data.close(),
\* "open" otherwise
LookupMapping(d, fs, tokens, force_cold_start, t, io_read, timed_out) ==
    IF get_cache_key(tokens).exc # "none" \/ force_cold_start THEN "none"
    ELSE The({IF r.exc # "none" \/ ~r.hit THEN "none"
              ELSE IF timed_out THEN "closed"
              ELSE "open" :
              r \in {read_cache(d, fs, CacheKeyOf(get_cache_key(tokens).key), t,
                                io_read)}})

\* the descriptor events of process_request: those of its lookup
RequestFdEvents(d, fs, tokens, force_cold_start, io_read) ==
    IF get_cache_key(tokens).exc # "none" \/ force_cold_start THEN <<>>
    ELSE FdEvents(d, fs, CacheKeyOf(get_cache_key(tokens).key), io_read)

----------------------------------------------------------------------------
(* The state machine *)

\* the token sequences of requests: two orderings of the same tokens, another
\* sequence, one with a token that is not a byte, one over the length limit
RequestSeqs ==
    {<<1, 2>>, <<2, 1>>, <<2>>, <<256>>, [i \in 1..(MAX_TOKENS_PER_REQUEST + 1) |-> 1]}

\* the payloads callers write: non-empty, up to one byte more than a segment may hold
Payloads == {d \in SeqsUpTo(PayloadBytes, MAX_SEGMENT_BYTES + 1) : Len(d) >= 1}

\* what the compute step yields: it fits a segment
Computed == {data \in Payloads : Len(data) <= MAX_SEGMENT_BYTES}

\* the token sequences callers pass: up to one token more than the limit
TokenSeqs == SeqsUpTo(TokenValues, MAX_TOKENS_PER_REQUEST + 1)

TheDag == Dag(nodes, root_keys, total_size_bytes)

\* the parents a filled-in segment names: none, or a key below its own
LowerKeys(k) == {None} \cup {j \in Keys : j < k}

\* the record of a call
Call(op, k, data, outcome, value) ==
    [op |-> op, key |-> k, data |-> data, outcome |-> outcome, value |-> value]

\* the model explores the index up to this tracked total
WithinBounds(d) == d.total <= MaxTrackedTotal

(* Construction of the handler: TLSContext, VaultClient, the HMAC key and   *)
(* the CacheManager, on a host that has or lacks what they look for        *)

\* os.getenv of a variable that is not set
Unset == "None"

\* what os.getenv("VAULT_TOKEN") can return
EnvTokens == {Unset, "", "s.token"}

\* /var/run/secrets/kubernetes.io/serviceaccount/token: missing, not readable, or a JWT
TokenFiles == {"FileNotFoundError", "PermissionError", "jwt"}

\* the hosts the handler can be constructed on: the certificate and key files,
\* the service account token file, the environment, whether Vault accepts the
\* login and whether the HMAC key can be read from it
Hosts ==
    [cert : BOOLEAN, key : BOOLEAN, sa_token : TokenFiles, VAULT_TOKEN : EnvTokens,
     login : BOOLEAN, secret : BOOLEAN]

\* tls_context.TLSContext(cert_path, key_path): the exception it raises
TLSContext(h) ==
    IF ~h.cert THEN "FileNotFoundError"
    ELSE IF ~h.key THEN "FileNotFoundError"
    ELSE "none"

\* vault_client._authenticate_kubernetes(): the exception it raises and where
\* the credential the client holds afterwards was taken from
_authenticate_kubernetes(h) ==
    IF h.sa_token = "jwt"
    THEN IF h.login THEN [exc |-> "none", credential |-> "serviceaccount"]
         ELSE [exc |-> "hvac.exceptions", credential |-> "none"]
    ELSE IF h.sa_token = "FileNotFoundError"
    THEN IF h.VAULT_TOKEN \in {Unset, ""}
         THEN [exc |-> "ValueError", credential |-> "none"]
         ELSE [exc |-> "none", credential |-> "os.getenv"]
    ELSE [exc |-> h.sa_token, credential |-> "none"]

\* the handler before __init__ runs on host h
Unbuilt(h) ==
    [host |-> h, pc |-> "TLSContext", exc |-> "none", credential |-> "none",
     hmac_key |-> "none"]

\* a handler whose __init__ returned, on a Kubernetes host
Constructed ==
    [host |-> [cert |-> TRUE, key |-> TRUE, sa_token |-> "jwt", VAULT_TOKEN |-> Unset,
               login |-> TRUE, secret |-> TRUE],
     pc |-> "done", exc |-> "none", credential |-> "serviceaccount",
     hmac_key |-> "vault"]

\* a thread that is in no call
Idle == [op |-> "idle"]

\* no mmap object under this id
NoMmap == [key |-> None, closed |-> TRUE]

Init ==
    /\ nodes = <<>>
    /\ root_keys = <<>>
    /\ total_size_bytes = 0
    /\ files = [k \in Keys |-> NoFile]
    /\ now = 0
    /\ ret = Call("init", None, <<>>, "none", <<>>)
    /\ prev = Call("init", None, <<>>, "none", <<>>)
    /\ inflight = [th \in Threads |-> Idle]
    /\ metrics = NoMetrics
    /\ mmaps = [id \in MmapIds |-> NoMmap]
    /\ open_mmaps = {}
    /\ fds = NoFds
    /\ handler = Constructed

\* the index after a call that left d
SetDag(d) ==
    /\ nodes' = d.nodes
    /\ root_keys' = d.root_keys
    /\ total_size_bytes' = d.total

\* time passes
Tick ==
    /\ now < MaxTime
    /\ now' = now + 1
    /\ ret' = Call("tick", None, <<>>, "none", <<>>)
    /\ UNCHANGED <<nodes, root_keys, total_size_bytes, files, prev, inflight, metrics, handles, handler>>

\* merkle_dag.add_node(k, p, size), called directly
AddNode(k, p, size) ==
    \E o \in {add_node(TheDag, k, p, size, now)} :
        /\ WithinBounds(o.dag)
        /\ SetDag(o.dag)
        /\ ret' = Call("add_node", k, <<>>, o.exc, <<>>)
        /\ UNCHANGED <<files, now, prev, inflight, metrics, handles, handler>>

\* merkle_dag.remove_node(k), called directly
RemoveNode(k) ==
    \E o \in {remove_node(TheDag, k)} :
        /\ SetDag(o.dag)
        /\ ret' = Call("remove_node", k, <<>>, o.exc, <<>>)
        /\ UNCHANGED <<files, now, prev, inflight, metrics, handles, handler>>

\* merkle_dag.get_node(k).increment_refcount()
Pin(k) ==
    /\ HasNode(nodes, k)
    /\ get_node(nodes, k).refcount < MaxRefcount
    /\ \E o \in {increment_refcount(TheDag, k)} :
           /\ SetDag(o.dag)
           /\ ret' = Call("increment_refcount", None, <<>>, o.exc, <<>>)
    /\ UNCHANGED <<files, now, prev, inflight, metrics, handles, handler>>

\* merkle_dag.get_node(k).decrement_refcount()
Unpin(k) ==
    /\ HasNode(nodes, k)
    /\ \E o \in {decrement_refcount(TheDag, k)} :
           /\ SetDag(o.dag)
           /\ ret' = Call("decrement_refcount", None, <<>>, o.exc, <<>>)
    /\ UNCHANGED <<files, now, prev, inflight, metrics, handles, handler>>

\* cache_manager.write_cache(k, data, p)
WriteCache(k, data, p, io) ==
    \E r \in {write_cache(TheDag, files, k, data, p, now, io)} :
        /\ WithinBounds(r.dag)
        /\ SetDag(r.dag)
        /\ files' = r.files
        /\ ret' = Call("write_cache", k, data, r.exc, <<>>)
        /\ UNCHANGED <<now, prev, inflight, metrics, handles, handler>>

\* cache_manager.read_cache(k), the caller looking at the view and letting go
\* of it: the mmap object, referenced no more, is deallocated, which unmaps it
\* and takes it out of the WeakSet
ReadCache(k, io) ==
    \E r \in {read_cache(TheDag, files, k, now, io)} :
        /\ SetDag(r.dag)
        /\ files' = r.files
        /\ ret' = Call("read_cache", k, <<>>,
                       IF r.exc # "none" THEN r.exc ELSE IF r.hit THEN "hit" ELSE "miss",
                       r.value)
        /\ fds' = DoFds(fds, FdEvents(TheDag, files, k, io))
        /\ UNCHANGED <<now, prev, inflight, metrics, mmaps, open_mmaps, handler>>

\* the ids under which there is no mmap object
FreeMmaps == {id \in MmapIds : mmaps[id] = NoMmap}

\* self.open_mmaps.add(mm) left out
Track_NoAdd(tracked, id) == tracked

\* self.open_mmaps.add(mm)
Track(tracked, id) == tracked \cup {id}

\* mm = cache_manager.read_cache(k), the caller keeping the mmap object it gets
ReadCacheHold(k, io) ==
    \E r \in {read_cache(TheDag, files, k, now, io)} :
        /\ SetDag(r.dag)
        /\ files' = r.files
        /\ ret' = Call("read_cache", k, <<>>,
                       IF r.exc # "none" THEN r.exc ELSE IF r.hit THEN "hit" ELSE "miss",
                       r.value)
        /\ fds' = DoFds(fds, FdEvents(TheDag, files, k, io))
        /\ IF r.exc = "none" /\ r.hit
           THEN /\ FreeMmaps # {}
                /\ \E id \in {Min(FreeMmaps)} :
                       /\ mmaps' = [mmaps EXCEPT ![id] = [key |-> k, closed |-> FALSE]]
                       /\ open_mmaps' = Track(open_mmaps, id)
           ELSE UNCHANGED <<mmaps, open_mmaps>>
        /\ UNCHANGED <<now, prev, inflight, metrics, handler>>

\* mm.close(), by the caller that holds mm; closing again does nothing
CloseMmap(id) ==
    /\ mmaps[id] # NoMmap
    /\ mmaps' = [mmaps EXCEPT ![id].closed = TRUE]
    /\ ret' = Call("mmap.close", mmaps[id].key, <<>>, "none", <<>>)
    /\ UNCHANGED <<nodes, root_keys, total_size_bytes, files, now, prev, inflight,
                   metrics, open_mmaps, fds, handler>>

\* the caller lets go of mm: the object is deallocated, which unmaps it, and
\* the WeakSet holds it no more
DropMmap(id) ==
    /\ mmaps[id] # NoMmap
    /\ mmaps' = [mmaps EXCEPT ![id] = NoMmap]
    /\ open_mmaps' = open_mmaps \ {id}
    /\ ret' = Call("del", mmaps[id].key, <<>>, "none", <<>>)
    /\ UNCHANGED <<nodes, root_keys, total_size_bytes, files, now, prev, inflight,
                   metrics, fds, handler>>

\* cache_manager._cleanup_all_mmaps(): for mm in list(self.open_mmaps): mm.close()
CleanupAllMmaps ==
    /\ mmaps' = [id \in MmapIds |->
                     IF id \in open_mmaps THEN [mmaps[id] EXCEPT !.closed = TRUE]
                     ELSE mmaps[id]]
    /\ ret' = Call("_cleanup_all_mmaps", None, <<>>, "none", <<>>)
    /\ UNCHANGED <<nodes, root_keys, total_size_bytes, files, now, prev, inflight,
                   metrics, open_mmaps, fds, handler>>

\* cache_manager._enforce_cache_limit(): an eviction cycle
EnforceCacheLimit ==
    \E r \in {_enforce_cache_limit(TheDag, files)} :
        /\ SetDag(r.dag)
        /\ files' = r.files
        /\ ret' = Call("_enforce_cache_limit", None, <<>>, r.exc, <<>>)
        /\ UNCHANGED <<now, prev, inflight, metrics, handles, handler>>

\* the bytes of a stored segment that the model alters: the first byte of the
\* tag and the last byte of the payload
CorruptPositions(file) == {1, Len(file)}

\* a byte of the stored segment of k is altered behind the cache's back
Corrupt(k, i) ==
    /\ Exists(files, k)
    /\ Verifies(files[k])
    /\ i \in CorruptPositions(files[k])
    /\ files' = [files EXCEPT ![k][i] = (@ + 1) % BYTE_RANGE]
    /\ ret' = Call("corrupt", None, <<>>, "none", <<>>)
    /\ UNCHANGED <<nodes, root_keys, total_size_bytes, now, prev, inflight, metrics, handles, handler>>

\* handler.get_cache_key(tokens)
GetCacheKey(tokens) ==
    \E r \in {get_cache_key(tokens)} :
        /\ ret' = Call("get_cache_key", None, tokens, r.exc, r.key)
        /\ prev' = ret
        /\ UNCHANGED <<nodes, root_keys, total_size_bytes, files, now, inflight, metrics, handles, handler>>

\* handler.process_request(tokens, force_cold_start).  The record of the call
\* holds the dict returned and, besides, the state of the mapping of the lookup
\* as the request ends; the mmap object is local to process_request and is
\* deallocated as it returns
ProcessRequest(tokens, force_cold_start, data, io_read, io_write, timed_out, latency_ms) ==
    /\ metrics.total_requests < MaxRequests
    /\ \E r \in {process_request(TheDag, files, tokens, force_cold_start, data, now,
                                  io_read, io_write, timed_out)} :
           /\ WithinBounds(r.dag)
           /\ SetDag(r.dag)
           /\ files' = r.files
           /\ metrics' = process_request_metrics(metrics, tokens, force_cold_start, r,
                                                 latency_ms)
           /\ ret' = Call("process_request", None, tokens,
                          IF r.exc # "none" THEN r.exc
                          ELSE IF r.hit THEN "hit" ELSE "miss",
                          IF r.exc # "none" THEN <<>>
                          ELSE Response(tokens, r, data, latency_ms))
                         @@ [mapping |-> LookupMapping(TheDag, files, tokens,
                                                       force_cold_start, now, io_read,
                                                       timed_out)]
    /\ fds' = DoFds(fds, RequestFdEvents(TheDag, files, tokens, force_cold_start, io_read))
    /\ UNCHANGED <<now, prev, inflight, mmaps, open_mmaps, handler>>

----------------------------------------------------------------------------
(* process_request followed in a request thread from its lookup to its      *)
(* write, other threads running between the two                             *)

\* process_request(tokens) up to the end of a lookup that misses: the request
\* is counted, the key computed, read_cache returns None, the miss is counted
RequestLookup(th, tokens, io_read) ==
    /\ inflight[th] = Idle
    /\ metrics.total_requests < MaxRequests
    /\ get_cache_key(tokens).exc = "none"
    /\ \E k \in {CacheKeyOf(get_cache_key(tokens).key)} :
           /\ \E r \in {read_cache(TheDag, files, k, now, io_read)} :
                  /\ r.exc = "none" /\ ~r.hit
                  /\ SetDag(r.dag)
                  /\ files' = r.files
           /\ fds' = DoFds(fds, FdEvents(TheDag, files, k, io_read))
           /\ inflight' = [inflight EXCEPT ![th] =
                               [op |-> "process_request", key |-> k, tokens |-> tokens]]
    /\ metrics' = [metrics EXCEPT !.total_requests = @ + 1, !.cache_misses = @ + 1]
    /\ UNCHANGED <<now, ret, prev, mmaps, open_mmaps, handler>>

\* the rest of the request: the compute step, write_cache in try / except
\* Exception, the latency sample, the returned dict
RequestWrite(th, data, io_write, latency_ms) ==
    /\ inflight[th].op = "process_request"
    /\ \E w \in {write_cache(TheDag, files, inflight[th].key, data, None, now, io_write)} :
           /\ WithinBounds(w.dag)
           /\ SetDag(w.dag)
           /\ files' = w.files
           /\ ret' = Call("process_request", inflight[th].key, inflight[th].tokens, "miss",
                          Response(inflight[th].tokens,
                                   Result(w.dag, w.files, "none", FALSE, <<>>),
                                   data, latency_ms))
    /\ metrics' = [metrics EXCEPT !.p95_latency_ms =
                       KeepLast(Append(@, latency_ms), MAX_LATENCY_SAMPLES)]
    /\ inflight' = [inflight EXCEPT ![th] = Idle]
    /\ UNCHANGED <<now, prev, handles, handler>>

----------------------------------------------------------------------------
(* write_cache followed statement by statement in a request thread, other   *)
(* threads running between its statements                                   *)

\* some other thread is in the middle of write_cache for key k
WrittenElsewhere(th, k) ==
    \E o \in Threads \ {th} : inflight[o].op = "write_cache" /\ inflight[o].key = k

\* write_cache up to open(cache_file, "wb"): the size check passed, the eviction
\* cycle ran, the file is created, or truncated, and is empty
WriteOpen(th, k, data) ==
    /\ inflight[th] = Idle
    /\ ~WrittenElsewhere(th, k)
    /\ Len(data) <= MAX_SEGMENT_BYTES
    /\ \E e \in {_enforce_cache_limit(TheDag, files)} :
           /\ SetDag(e.dag)
           /\ files' = [e.files EXCEPT ![k] = <<>>]
    /\ inflight' = [inflight EXCEPT ![th] =
                        [op |-> "write_cache", key |-> k, data |-> data, at |-> "open"]]
    /\ UNCHANGED <<now, ret, prev, metrics, handles, handler>>

\* f.write(data_hmac); the bytes go to the path unless the file was unlinked
WriteTag(th) ==
    /\ inflight[th].op = "write_cache" /\ inflight[th].at = "open"
    /\ files' = IF Exists(files, inflight[th].key)
                THEN [files EXCEPT ![inflight[th].key] = _compute_hmac(inflight[th].data)]
                ELSE files
    /\ inflight' = [inflight EXCEPT ![th].at = "tag"]
    /\ UNCHANGED <<nodes, root_keys, total_size_bytes, now, ret, prev, metrics, handles, handler>>

\* f.write(data), the file is closed, os.sync()
WriteData(th) ==
    /\ inflight[th].op = "write_cache" /\ inflight[th].at = "tag"
    /\ files' = IF Exists(files, inflight[th].key)
                THEN [files EXCEPT ![inflight[th].key] = @ \o inflight[th].data]
                ELSE files
    /\ inflight' = [inflight EXCEPT ![th].at = "data"]
    /\ UNCHANGED <<nodes, root_keys, total_size_bytes, now, ret, prev, metrics, handles, handler>>

\* self.merkle_dag.add_node(...), and write_cache returns, or raises ValueError
WriteAddNode(th) ==
    /\ inflight[th].op = "write_cache" /\ inflight[th].at = "data"
    /\ \E a \in {add_node(TheDag, inflight[th].key, None,
                           Len(inflight[th].data) + HMAC_LEN, now)} :
           /\ WithinBounds(a.dag)
           /\ SetDag(a.dag)
           /\ ret' = Call("write_cache", inflight[th].key, inflight[th].data, a.exc, <<>>)
    /\ inflight' = [inflight EXCEPT ![th] = Idle]
    /\ UNCHANGED <<files, now, prev, metrics, handles, handler>>

\* f.write() raises OSError after the file was created: the except handler
\* runs, and write_cache raises
WriteFail(th) ==
    /\ inflight[th].op = "write_cache" /\ inflight[th].at \in {"open", "tag"}
    /\ files' = RollBack(files, inflight[th].key)
    /\ ret' = Call("write_cache", inflight[th].key, inflight[th].data, "OSError", <<>>)
    /\ inflight' = [inflight EXCEPT ![th] = Idle]
    /\ UNCHANGED <<nodes, root_keys, total_size_bytes, now, prev, metrics, handles, handler>>

----------------------------------------------------------------------------
(* add_node followed statement by statement in a request thread; no lock is  *)
(* taken, so other threads run between its statements                       *)

\* some thread is in the middle of add_node for key k
BeingAdded(k) == \E th \in Threads : inflight[th].op = "add_node" /\ inflight[th].key = k

\* add_node(k, p, size) for a key that is new to the index, up to the end of
\* add_child (or root_keys.append): the checks raise, or the key is linked
AddLink(th, k, p, size) ==
    /\ inflight[th] = Idle
    /\ ~HasNode(nodes, k) /\ ~BeingAdded(k)
    /\ IF (p # None /\ ~HasNode(nodes, p)) \/ (p # None /\ Full(nodes, p))
       THEN /\ ret' = Call("add_node", k, <<>>, "ValueError", <<>>)
            /\ UNCHANGED <<nodes, root_keys, inflight>>
       ELSE /\ nodes' = IF p # None /\ k \notin Range(get_node(nodes, p).children_keys)
                        THEN SetNode(nodes, [get_node(nodes, p) EXCEPT
                                                 !.children_keys = Append(@, k)])
                        ELSE nodes
            /\ root_keys' = IF p = None THEN Append(root_keys, k) ELSE root_keys
            /\ inflight' = [inflight EXCEPT ![th] =
                                [op |-> "add_node", at |-> "linked",
                                 node |-> MerkleNode(k, p, size, now), key |-> k]]
            /\ UNCHANGED ret
    /\ UNCHANGED <<total_size_bytes, files, now, prev, metrics, handles, handler>>

\* self.nodes[cache_key] = node
AddStore(th) ==
    /\ inflight[th].op = "add_node" /\ inflight[th].at = "linked"
    /\ nodes' = SetNode(nodes, inflight[th].node)
    /\ inflight' = [inflight EXCEPT ![th].at = "stored"]
    /\ UNCHANGED <<root_keys, total_size_bytes, files, now, ret, prev, metrics, handles, handler>>

\* self._total_size_bytes += size_bytes, first half: the counter is read
AddLoadTotal(th) ==
    /\ inflight[th].op = "add_node" /\ inflight[th].at = "stored"
    /\ inflight' = [inflight EXCEPT ![th] =
                        [op |-> "add_node", at |-> "loaded", node |-> inflight[th].node,
                         key |-> inflight[th].key, total |-> total_size_bytes]]
    /\ UNCHANGED <<nodes, root_keys, total_size_bytes, files, now, ret, prev, metrics, handles, handler>>

\* second half: the sum is stored, and add_node returns
AddStoreTotal(th) ==
    /\ inflight[th].op = "add_node" /\ inflight[th].at = "loaded"
    /\ total_size_bytes' = inflight[th].total + inflight[th].node.size_bytes
    /\ total_size_bytes' <= MaxTrackedTotal
    /\ ret' = Call("add_node", inflight[th].key, <<>>, "none", <<>>)
    /\ inflight' = [inflight EXCEPT ![th] = Idle]
    /\ UNCHANGED <<nodes, root_keys, files, now, prev, metrics, handles, handler>>

----------------------------------------------------------------------------
(* The two places that destroy an entry, followed statement by statement:   *)
(* the loop of _enforce_cache_limit and the mismatch branch of read_cache   *)

\* _enforce_cache_limit() up to the loop: the total is above the budget, the
\* candidates are fetched
EvictBegin(th) ==
    /\ inflight[th] = Idle
    /\ get_total_size_bytes(TheDag) > MAX_TOTAL_CACHE_BYTES
    /\ inflight' = [inflight EXCEPT ![th] =
                        [op |-> "_enforce_cache_limit", at |-> "loop",
                         lru_nodes |-> get_lru_nodes(TheDag, LRU_LIMIT),
                         bytes_to_evict |-> get_total_size_bytes(TheDag)
                                                - MAX_TOTAL_CACHE_BYTES,
                         bytes_evicted |-> 0]]
    /\ UNCHANGED <<nodes, root_keys, total_size_bytes, files, now, ret, prev, metrics, handles, handler>>

\* one turn of the loop up to cache_file.unlink(); a pinned node is skipped
EvictUnlink(th) ==
    /\ inflight[th].op = "_enforce_cache_limit" /\ inflight[th].at = "loop"
    /\ inflight[th].lru_nodes # <<>>
    /\ inflight[th].bytes_evicted < inflight[th].bytes_to_evict
    /\ IF inflight[th].lru_nodes[1].refcount > 0
       THEN /\ inflight' = [inflight EXCEPT ![th].lru_nodes = Tail(@)]
            /\ UNCHANGED files
       ELSE /\ files' = Unlink(files, inflight[th].lru_nodes[1].cache_key)
            /\ inflight' = [inflight EXCEPT ![th].at = "unlinked"]
    /\ UNCHANGED <<nodes, root_keys, total_size_bytes, now, ret, prev, metrics, handles, handler>>

\* bytes_evicted += node.size_bytes; self.merkle_dag.remove_node(node.cache_key)
EvictRemove(th) ==
    /\ inflight[th].op = "_enforce_cache_limit" /\ inflight[th].at = "unlinked"
    /\ \E o \in {remove_node(TheDag, inflight[th].lru_nodes[1].cache_key)} :
           /\ SetDag(o.dag)
           /\ IF o.exc = "none"
              THEN /\ inflight' = [inflight EXCEPT
                                      ![th].at = "loop",
                                      ![th].bytes_evicted =
                                          @ + inflight[th].lru_nodes[1].size_bytes,
                                      ![th].lru_nodes = Tail(@)]
                   /\ UNCHANGED ret
              ELSE /\ inflight' = [inflight EXCEPT ![th] = Idle]
                   /\ ret' = Call("_enforce_cache_limit", None, <<>>, o.exc, <<>>)
    /\ UNCHANGED <<files, now, prev, metrics, handles, handler>>

\* the loop ends, _enforce_cache_limit returns
EvictEnd(th) ==
    /\ inflight[th].op = "_enforce_cache_limit" /\ inflight[th].at = "loop"
    /\ \/ inflight[th].lru_nodes = <<>>
       \/ inflight[th].bytes_evicted >= inflight[th].bytes_to_evict
    /\ inflight' = [inflight EXCEPT ![th] = Idle]
    /\ ret' = Call("_enforce_cache_limit", None, <<>>, "none", <<>>)
    /\ UNCHANGED <<nodes, root_keys, total_size_bytes, files, now, prev, metrics, handles, handler>>

\* read_cache(k) on a segment that fails the comparison, up to cache_file.unlink()
ReadPurgeUnlink(th, k) ==
    /\ inflight[th] = Idle
    /\ Exists(files, k) /\ HasNode(nodes, k) /\ ~Verifies(files[k])
    /\ files' = Unlink(files, k)
    /\ inflight' = [inflight EXCEPT ![th] =
                        [op |-> "read_cache", key |-> k, at |-> "unlinked"]]
    /\ UNCHANGED <<nodes, root_keys, total_size_bytes, now, ret, prev, metrics, handles, handler>>

\* self.merkle_dag.remove_node(cache_key); return None.  A ValueError of
\* remove_node reaches the except handler, whose remove_node raises it again
ReadPurgeRemove(th) ==
    /\ inflight[th].op = "read_cache" /\ inflight[th].at = "unlinked"
    /\ \E o \in {remove_node(TheDag, inflight[th].key)} :
           /\ SetDag(o.dag)
           /\ ret' = Call("read_cache", inflight[th].key, <<>>,
                          IF o.exc = "none" THEN "miss" ELSE o.exc, <<>>)
    /\ inflight' = [inflight EXCEPT ![th] = Idle]
    /\ UNCHANGED <<files, now, prev, metrics, handles, handler>>

\* the parents callers of write_cache name: none, or a key below the written one
Parents(k) == {None} \cup {j \in CacheKeys : j < k}

\* the cache manager in use: writes, reads, eviction cycles, pins, corruption
Next ==
    \/ Tick
    \/ \E k \in CacheKeys, data \in Payloads, io \in {"ok", "OSError"} :
           \E p \in Parents(k) : WriteCache(k, data, p, io)
    \/ \E k \in CacheKeys, io \in {"ok", "OSError", "mmap"} : ReadCache(k, io)
    \/ EnforceCacheLimit
    \/ \E k \in CacheKeys : Pin(k)
    \/ \E k \in CacheKeys : Unpin(k)
    \/ \E k \in CacheKeys : \E i \in CorruptPositions(files[k]) : Corrupt(k, i)

Spec == Init /\ [][Next]_vars

\* the index alone: add_node, remove_node and the refcount methods
NextDag ==
    \/ Tick
    \/ \E k \in Keys, p \in Keys \cup {None}, size \in DirectSizes : AddNode(k, p, size)
    \/ \E k \in Keys : RemoveNode(k)
    \/ \E k \in Keys : Pin(k)
    \/ \E k \in Keys : Unpin(k)

SpecDag == Init /\ [][NextDag]_vars

\* the cache key alone
NextKey == \E tokens \in TokenSeqs : GetCacheKey(tokens)

SpecKey == Init /\ [][NextKey]_vars

\* requests through the handler, over a cache whose nodes get pinned and whose
\* segment files get altered
NextHandler ==
    \/ Tick
    \/ \E tokens \in RequestSeqs, force_cold_start \in BOOLEAN, data \in Computed,
          io_read \in {"ok", "OSError", "mmap"}, io_write \in {"ok", "OSError"},
          timed_out \in BOOLEAN, latency_ms \in {Min(Latencies)} :
           ProcessRequest(tokens, force_cold_start, data, io_read, io_write, timed_out,
                          latency_ms)
    \/ \E k \in CacheKeys : Pin(k)
    \/ \E k \in CacheKeys : Unpin(k)
    \/ \E k \in CacheKeys : \E i \in CorruptPositions(files[k]) : Corrupt(k, i)

SpecHandler == Init /\ [][NextHandler]_vars

\* requests and what they count: the cache's I/O succeeds, the requests hit,
\* miss, time out, skip the lookup or are refused, and measure either latency
NextMetrics ==
    \E tokens \in RequestSeqs, force_cold_start \in BOOLEAN, data \in Computed,
       timed_out \in BOOLEAN, latency_ms \in Latencies :
        ProcessRequest(tokens, force_cold_start, data, "ok", "ok", timed_out, latency_ms)

SpecMetrics == Init /\ [][NextMetrics]_vars

\* what the I/O of read_cache does
ReadIo == {"ok", "OSError", "read", "os.open", "mmap", "fadvise"}

\* mappings and descriptors: segments are written and altered, callers read
\* them on every I/O path and keep, close and let go of the mappings,
\* requests look segments up, and the mappings are cleaned up as at exit
NextMmap ==
    \/ \E k \in CacheKeys, data \in Computed : WriteCache(k, data, None, "ok")
    \/ \E k \in CacheKeys : \E i \in CorruptPositions(files[k]) : Corrupt(k, i)
    \/ \E k \in CacheKeys, io \in ReadIo : ReadCacheHold(k, io)
    \/ \E id \in MmapIds : CloseMmap(id)
    \/ \E id \in MmapIds : DropMmap(id)
    \/ CleanupAllMmaps
    \/ \E data \in Computed, timed_out \in BOOLEAN :
           ProcessRequest(<<2>>, FALSE, data, "ok", "ok", timed_out, Min(Latencies))

SpecMmap == Init /\ [][NextMmap]_vars

\* threads writing segments statement by statement while others read; the reads
\* meet no I/O error and their mapping succeeds
NextWrite ==
    \/ \E th \in Threads, k \in CacheKeys, data \in Payloads : WriteOpen(th, k, data)
    \/ \E th \in Threads : WriteTag(th)
    \/ \E th \in Threads : WriteData(th)
    \/ \E th \in Threads : WriteAddNode(th)
    \/ \E th \in Threads : WriteFail(th)
    \/ \E k \in CacheKeys : ReadCache(k, "ok")

SpecWrite == Init /\ [][NextWrite]_vars

\* threads adding new keys to the index statement by statement, and removing
\* nodes; nothing is pinned and no key is added twice, so that run one call
\* after the other the index stays consistent; the counter is followed while it
\* is not negative
NextIndex ==
    \/ \E th \in Threads, k \in Keys, size \in DirectSizes :
           \E p \in LowerKeys(k) : AddLink(th, k, p, size)
    \/ \E th \in Threads : AddStore(th)
    \/ \E th \in Threads : AddLoadTotal(th)
    \/ \E th \in Threads : AddStoreTotal(th)
    \/ \E k \in Keys : RemoveNode(k) /\ total_size_bytes' >= 0

SpecIndex == Init /\ [][NextIndex]_vars

\* get_total_size_bytes() is above the budget: an eviction cycle has work to do
OverBudget == get_total_size_bytes(TheDag) > MAX_TOTAL_CACHE_BYTES

\* the unpinned nodes in the index are large enough in total to cover the excess
Covered ==
    SumSizes(Unpinned(nodes)) >= get_total_size_bytes(TheDag) - MAX_TOTAL_CACHE_BYTES

\* eviction: segments enter the index (as write_cache's add_node call adds them),
\* are pinned and unpinned, and once the total is above the budget and the
\* unpinned nodes cover the excess, eviction cycles are all that runs
NextEvict ==
    \/ EnforceCacheLimit
    \/ ~(OverBudget /\ Covered) /\ Tick
    \/ /\ ~(OverBudget /\ Covered)
       /\ \E k \in Keys, size \in DirectSizes : \E p \in LowerKeys(k) : AddNode(k, p, size)
    \/ ~(OverBudget /\ Covered) /\ \E k \in Keys : Pin(k)
    \/ ~(OverBudget /\ Covered) /\ \E k \in Keys : Unpin(k)

\* entries destroyed statement by statement: segments are written while the
\* total is within the budget (so that the write's own eviction cycle has
\* nothing to do), altered behind the cache's back, evicted and purged
NextDestroy ==
    \/ /\ ~OverBudget
       /\ \E k \in CacheKeys, data \in Computed : \E p \in Parents(k) :
              WriteCache(k, data, p, "ok")
    \/ \E k \in CacheKeys : \E i \in CorruptPositions(files[k]) : Corrupt(k, i)
    \/ \E th \in Threads : EvictBegin(th)
    \/ \E th \in Threads : EvictUnlink(th)
    \/ \E th \in Threads : EvictRemove(th)
    \/ \E th \in Threads : EvictEnd(th)
    \/ \E th \in Threads, k \in CacheKeys : ReadPurgeUnlink(th, k)
    \/ \E th \in Threads : ReadPurgeRemove(th)

SpecDestroy == Init /\ [][NextDestroy]_vars

\* the eviction cycle keeps being run
SpecEvict == Init /\ [][NextEvict]_vars /\ WF_vars(EnforceCacheLimit)

----------------------------------------------------------------------------
(* CCFZKCSHandler.__init__ followed call by call *)

\* self.tls_context = TLSContext(cert_path=CERT_PATH, key_path=KEY_PATH)
NewTLSContext ==
    /\ handler.pc = "TLSContext"
    /\ \E e \in {TLSContext(handler.host)} :
           handler' = [handler EXCEPT !.pc = IF e = "none" THEN "VaultClient" ELSE "raised",
                                      !.exc = e]
    /\ ret' = Call("TLSContext", None, <<>>, TLSContext(handler.host), <<>>)
    /\ UNCHANGED <<nodes, root_keys, total_size_bytes, files, now, prev, inflight,
                   metrics, handles>>

\* self.vault_client = VaultClient(self.tls_context): the default address is
\* HTTPS, the client is made and _authenticate_kubernetes runs
NewVaultClient ==
    /\ handler.pc = "VaultClient"
    /\ \E a \in {_authenticate_kubernetes(handler.host)} :
           /\ handler' = [handler EXCEPT !.pc = IF a.exc = "none" THEN "read" ELSE "raised",
                                         !.exc = a.exc,
                                         !.credential = a.credential]
           /\ ret' = Call("VaultClient", None, <<>>, a.exc, <<>>)
    /\ UNCHANGED <<nodes, root_keys, total_size_bytes, files, now, prev, inflight,
                   metrics, handles>>

\* hmac_data = self.vault_client.read(VAULT_HMAC_KEY_PATH) and the key taken
\* out of it; any exception becomes ValueError
ReadHmacKey ==
    /\ handler.pc = "read"
    /\ handler' = IF handler.host.secret
                  THEN [handler EXCEPT !.pc = "CacheManager", !.hmac_key = "vault"]
                  ELSE [handler EXCEPT !.pc = "raised", !.exc = "ValueError"]
    /\ ret' = Call("vault_client.read", None, <<>>,
                   IF handler.host.secret THEN "none" ELSE "ValueError", <<>>)
    /\ UNCHANGED <<nodes, root_keys, total_size_bytes, files, now, prev, inflight,
                   metrics, handles>>

\* self.cache_manager = CacheManager(cache_dir=CACHE_DIR, hmac_key=hmac_key)
\* and the metrics: an empty index, no mappings, counters at zero
NewCacheManager ==
    /\ handler.pc = "CacheManager"
    /\ handler' = [handler EXCEPT !.pc = "done"]
    /\ SetDag(Dag(<<>>, <<>>, 0))
    /\ open_mmaps' = {}
    /\ metrics' = NoMetrics
    /\ ret' = Call("CacheManager", None, <<>>, "none", <<>>)
    /\ UNCHANGED <<files, now, prev, inflight, mmaps, fds>>

\* before CCFZKCSHandler() is called, on any host
InitConstruct ==
    /\ nodes = <<>>
    /\ root_keys = <<>>
    /\ total_size_bytes = 0
    /\ files = [k \in Keys |-> NoFile]
    /\ now = 0
    /\ ret = Call("init", None, <<>>, "none", <<>>)
    /\ prev = Call("init", None, <<>>, "none", <<>>)
    /\ inflight = [th \in Threads |-> Idle]
    /\ metrics = NoMetrics
    /\ mmaps = [id \in MmapIds |-> NoMmap]
    /\ open_mmaps = {}
    /\ fds = NoFds
    /\ handler \in {Unbuilt(h) : h \in Hosts}

NextConstruct ==
    \/ NewTLSContext
    \/ NewVaultClient
    \/ ReadHmacKey
    \/ NewCacheManager

SpecConstruct == InitConstruct /\ [][NextConstruct]_vars

\* request threads, each from its lookup to its write, with no I/O failure and
\* nothing else touching the cache: run one request after the other, the second
\* request for a key is a hit
NextRequests ==
    \/ \E th \in Threads, tokens \in {<<1, 2>>, <<2, 1>>, <<2>>} :
           RequestLookup(th, tokens, "ok")
    \/ \E th \in Threads, data \in Computed : RequestWrite(th, data, "ok", Min(Latencies))
    \/ \E tokens \in {<<1, 2>>, <<2, 1>>, <<2>>}, data \in Computed :
           ProcessRequest(tokens, FALSE, data, "ok", "ok", FALSE, Min(Latencies))
    \/ Tick

SpecRequests == Init /\ [][NextRequests]_vars

----------------------------------------------------------------------------
(* Properties *)

Pinned(ns, k) == HasNode(ns, k) /\ get_node(ns, k).refcount > 0

\* the number of times x occurs in s
Count(s, x) == Cardinality({i \in 1..Len(s) : s[i] = x})

IsPermutation(s, t) ==
    /\ Len(s) = Len(t)
    /\ \A x \in Range(s) \cup Range(t) : Count(s, x) = Count(t, x)

\* C1: in every reachable state get_total_size_bytes() equals the sum of
\* size_bytes over the nodes in MerkleDAG.nodes.
C1_TotalIsSumOfSizes == get_total_size_bytes(TheDag) = SumSizes(nodes)

\* C2: between CacheManager operations, a segment file exists for a key if and
\* only if the index holds a node for that key.
C2_FileIffNode == \A k \in Keys : Exists(files, k) <=> HasNode(nodes, k)

\* C3: a pinned node survives every operation other than its unpinning: it stays
\* in the index with refcount > 0, and its segment file, if it had one, stays.
C3_PinnedNeverDestroyed ==
    [][\A k \in Keys :
         (Pinned(nodes, k) /\ ret'.op # "decrement_refcount")
             => /\ Pinned(nodes', k)
                /\ Exists(files, k) => Exists(files', k)]_vars

\* C4: a node with refcount > 0 is in no result of get_lru_nodes, whatever the
\* limit, and remove_node on it raises and leaves nodes, root_keys and the total
\* size as they were.
C4_PinnedNeverSelectedNorRemoved ==
    [][/\ \A k \in Keys : \A limit \in (0..Cardinality(Keys)) \cup {LRU_LIMIT} :
             Pinned(nodes', k) =>
                 k \notin NodeKeys(get_lru_nodes(TheDag', limit))
       /\ \A k \in Keys :
             (ret'.op = "remove_node" /\ ret'.key = k /\ Pinned(nodes, k))
                 => /\ ret'.outcome = "ValueError"
                    /\ UNCHANGED <<nodes, root_keys, total_size_bytes>>]_vars

\* C4 witness: remove_node has just been refused on a pinned node, while another
\* node is unpinned and so is an eviction candidate.
C4_Witness ==
    /\ ret.op = "remove_node" /\ ret.outcome = "ValueError"
    /\ Pinned(nodes, ret.key)
    /\ get_lru_nodes(TheDag, LRU_LIMIT) # <<>>

\* C5: write_cache(K, P) followed by read_cache(K) that returns a view returns
\* exactly the bytes of P.
C5_RoundTrip ==
    [][(/\ ret.op = "write_cache" /\ ret.outcome = "none"
        /\ ret'.op = "read_cache" /\ ret'.key = ret.key /\ ret'.outcome = "hit")
           => ret'.value = ret.data]_vars

\* C6: read_cache of a key whose stored segment has an altered byte returns a
\* miss, and on return no segment file exists for the key.
C6_CorruptionIsMissAndFileGone ==
    [][\A k \in Keys :
         (/\ ret'.op = "read_cache" /\ ret'.key = k
          /\ Exists(files, k) /\ ~Verifies(files[k]))
             => ret'.outcome = "miss" /\ ~Exists(files', k)]_vars

\* C7: when read_cache finds an integrity mismatch for K, on return the index
\* holds no node for K, whatever the node's refcount was.
C7_CorruptionPurgesNode ==
    [][\A k \in Keys :
         (/\ ret'.op = "read_cache" /\ ret'.key = k
          /\ Exists(files, k) /\ HasNode(nodes, k) /\ ~Verifies(files[k]))
             => ~HasNode(nodes', k)]_vars

\* C8: two calls of get_cache_key whose token sequences are permutations of each
\* other end the same way and, when they return, return the same key.
C8_OrderIndependent ==
    (/\ ret.op = "get_cache_key" /\ prev.op = "get_cache_key"
     /\ IsPermutation(ret.data, prev.data))
        => ret.outcome = prev.outcome /\ ret.value = prev.value

\* C8 witness: two calls that returned, on different orderings of the same tokens.
C8_Witness ==
    /\ ret.op = "get_cache_key" /\ prev.op = "get_cache_key"
    /\ ret.outcome = "none" /\ prev.outcome = "none"
    /\ ret.data # prev.data
    /\ IsPermutation(ret.data, prev.data)

\* C9: get_cache_key returns a 32-byte key for every token sequence of length at
\* most MAX_TOKENS_PER_REQUEST, and raises only when the length exceeds it.
C9_KeyForEverySequenceWithinLimit ==
    ret.op = "get_cache_key" =>
        /\ Len(ret.data) <= MAX_TOKENS_PER_REQUEST
               => ret.outcome = "none" /\ Len(ret.value) = HMAC_LEN
        /\ ret.outcome # "none" => Len(ret.data) > MAX_TOKENS_PER_REQUEST

\* C10: a write_cache that returns, of a segment that fits the budget on its own,
\* into an index whose nodes are all unpinned (and whose tracked total is exact,
\* the key being new), leaves get_total_size_bytes() at or below the budget.
C10_WriteKeepsBudget ==
    [][(/\ ret'.op = "write_cache" /\ ret'.outcome = "none"
        /\ Len(ret'.data) + HMAC_LEN <= MAX_TOTAL_CACHE_BYTES
        /\ ~HasNode(nodes, ret'.key)
        /\ total_size_bytes = SumSizes(nodes)
        /\ \A i \in 1..Len(nodes) : nodes[i].refcount = 0)
           => total_size_bytes' <= MAX_TOTAL_CACHE_BYTES]_vars

\* C11: once the tracked total is above the budget and the unpinned nodes in the
\* index are large enough in total to cover the excess, repeated eviction
\* cycles eventually bring get_total_size_bytes() to at or below the budget.
C11_EvictionReachesBudget == (OverBudget /\ Covered) ~> ~OverBudget

\* C11 witness: eviction cycles have brought the total to at or below the budget
\* by evicting a node whose pinned child is still in the index.
C11_Witness ==
    /\ ret.op = "_enforce_cache_limit"
    /\ ~OverBudget
    /\ \E i \in 1..Len(nodes) :
           nodes[i].parent_key # None /\ ~HasNode(nodes, nodes[i].parent_key)

\* C12: an eviction pass removes no node from the index while an unpinned node
\* with a strictly older last-access time remains in the index.
C12_LruFirst ==
    [][ret'.op = "_enforce_cache_limit" =>
           \A i \in 1..Len(nodes) : \A j \in 1..Len(nodes') :
               (/\ ~HasNode(nodes', nodes[i].cache_key)
                /\ nodes'[j].refcount = 0)
                   => nodes'[j].access_timestamp >= nodes[i].access_timestamp]_vars

\* C13: in every reachable state every node has at most MAX_FANOUT entries in
\* children_keys, and an add_node under a parent that already has MAX_FANOUT
\* children fails and leaves the parent with exactly MAX_FANOUT children.
C13_FanoutBounded ==
    /\ \A i \in 1..Len(nodes) : Len(nodes[i].children_keys) <= MAX_FANOUT
    /\ \A k \in Keys, p \in Keys, size \in DirectSizes :
           Full(nodes, p) =>
               /\ add_node(TheDag, k, p, size, now).exc = "ValueError"
               /\ Len(get_node(add_node(TheDag, k, p, size, now).dag.nodes, p)
                          .children_keys) = MAX_FANOUT

\* C13 witness: an add_node has just failed in an index that holds every key, so
\* for the fanout of its parent, and a parent has MAX_FANOUT children.
C13_Witness ==
    /\ ret.op = "add_node" /\ ret.outcome = "ValueError"
    /\ \A k \in Keys : HasNode(nodes, k)
    /\ \E p \in Keys : Len(get_node(nodes, p).children_keys) = MAX_FANOUT

\* C14: an add_node that fails, for an absent parent or for a parent with
\* MAX_FANOUT children, leaves nodes (children lists included), root_keys and the
\* total size as they were.
C14_FailedAddChangesNothing ==
    [][(ret'.op = "add_node" /\ ret'.outcome # "none")
           => UNCHANGED <<nodes, root_keys, total_size_bytes>>]_vars

\* C14 witness: an add_node has just failed in a non-empty index where no node
\* has MAX_FANOUT children, so for an absent parent.
C14_Witness ==
    /\ ret.op = "add_node" /\ ret.outcome = "ValueError"
    /\ nodes # <<>>
    /\ \A p \in Keys : ~Full(nodes, p)

\* C15: process_request raises only for a token sequence longer than
\* MAX_TOKENS_PER_REQUEST; within the limit it returns a result, whatever the
\* cache does inside.
C15_OnlyInputRejection ==
    (ret.op = "process_request" /\ Len(ret.data) <= MAX_TOKENS_PER_REQUEST)
        => ret.outcome \in {"hit", "miss"}

\* the segment of the request's key is stored: intact file, node in the index
Persisted(tokens) ==
    /\ get_cache_key(tokens).exc = "none"
    /\ Exists(files, CacheKeyOf(get_cache_key(tokens).key))
    /\ Verifies(files[CacheKeyOf(get_cache_key(tokens).key)])
    /\ HasNode(nodes, CacheKeyOf(get_cache_key(tokens).key))

\* C16: right after a process_request(T) that missed and persisted its payload,
\* a process_request(T') for a permutation T' of T, whose lookup meets no I/O
\* error and finishes within the timeout, reports cache_hit = true (and so does
\* not run the compute step).
C16_PermutationHits ==
    (ret.op = "process_request" /\ ret.outcome = "miss" /\ Persisted(ret.data))
        => \A tokens \in RequestSeqs : \A data \in Computed :
               \A io_read \in {"ok", "mmap"}, io_write \in {"ok", "OSError"} :
               IsPermutation(tokens, ret.data)
                   => process_request(TheDag, files, tokens, FALSE, data, now,
                                      io_read, io_write, FALSE).hit

\* a thread is in the middle of write_cache for key k
BeingWritten(k) ==
    \E th \in Threads : inflight[th].op = "write_cache" /\ inflight[th].key = k

\* C17: a read_cache(K) that runs while a write_cache(K, P) is in progress finds
\* nothing or returns the complete new segment, and deletes neither the file
\* nor the index node of K.
C17_ReaderSeesNoPartialWrite ==
    [][\A k \in CacheKeys :
         (ret'.op = "read_cache" /\ ret'.key = k /\ BeingWritten(k))
             => /\ ret'.outcome \in {"hit", "miss"}
                /\ ret'.outcome = "hit" =>
                       \E th \in Threads : /\ inflight[th].op = "write_cache"
                                            /\ ret'.value = Segment(inflight[th].data)
                /\ Exists(files, k) => Exists(files', k)
                /\ HasNode(nodes, k) => HasNode(nodes', k)]_vars

\* C20: after a write_cache(K, P) whose I/O failed once the file was created,
\* write_cache has raised, no segment file for K exists, and read_cache(K)
\* returns a miss.
C20_FailedWriteLeavesNoFile ==
    [][\A th \in Threads :
         (/\ inflight[th].op = "write_cache" /\ inflight'[th] = Idle
          /\ ret'.outcome = "OSError")
             => /\ ret'.op = "write_cache" /\ ret'.key = inflight[th].key
                /\ ~Exists(files', ret'.key)
                /\ \A io \in {"ok", "OSError", "mmap"} :
                       /\ read_cache(TheDag', files', ret'.key, now', io).exc = "none"
                       /\ ~read_cache(TheDag', files', ret'.key, now', io).hit]_vars

\* C20 witness: a write has just failed after its file was created, for a key
\* that an earlier write had stored.
C20_Witness ==
    /\ ret.op = "write_cache" /\ ret.outcome = "OSError"
    /\ \A th \in Threads : inflight[th] = Idle
    /\ ~Exists(files, ret.key)
    /\ HasNode(nodes, ret.key)

\* C18: under concurrent add_node and remove_node calls no update of the
\* total-size counter is lost (with no call in progress the counter is the sum
\* of the sizes), and in every state a thread can observe, a key in a node's
\* children list is in the node map and a node in the map whose parent is in
\* the map is in that parent's children list.
C18_IndexMutationsAtomic ==
    /\ (\A th \in Threads : inflight[th] = Idle)
           => get_total_size_bytes(TheDag) = SumSizes(nodes)
    /\ \A i \in 1..Len(nodes) :
           /\ \A c \in Range(nodes[i].children_keys) : HasNode(nodes, c)
           /\ (nodes[i].parent_key # None /\ HasNode(nodes, nodes[i].parent_key))
                  => nodes[i].cache_key
                         \in Range(get_node(nodes, nodes[i].parent_key).children_keys)

\* C19: no step unlinks the segment file of a key while the index still holds
\* an unpinned node for that key: the node goes first, the file after.
C19_NodeGoesBeforeFile ==
    [][\A k \in Keys :
         (Exists(files, k) /\ ~Exists(files', k))
             => ~(HasNode(nodes, k) /\ get_node(nodes, k).refcount = 0)]_vars


\* one more level of a cascade: the unpinned nodes listed as children of a
\* node of S
CascadeStep(ns, S) ==
    S \cup {c \in NodeKeys(ns) :
               /\ get_node(ns, c).refcount = 0
               /\ \E x \in S : HasNode(ns, x) /\ c \in Range(get_node(ns, x).children_keys)}

RECURSIVE CascadeIter(_, _, _)
CascadeIter(ns, S, n) == IF n = 0 THEN S ELSE CascadeIter(ns, CascadeStep(ns, S), n - 1)

\* k and the descendants reached from k through children that are all unpinned
Cascade(ns, k) == CascadeIter(ns, {k}, Len(ns))

\* the sizes of the nodes of ns whose keys are in S, added up
SizeOfKeys(ns, S) == SumSizes(SelectSeq(ns, LAMBDA n : n.cache_key \in S))

\* C22: a remove_node(K) that returns, K being in the index, removes K and
\* exactly the descendants reached from K through unpinned children, lowers the
\* total by exactly the sizes of the nodes removed, and leaves K neither in
\* root_keys nor in the children list of any node that stays.
C22_RemoveCascadesExactly ==
    [][(ret'.op = "remove_node" /\ ret'.outcome = "none" /\ HasNode(nodes, ret'.key))
           => /\ NodeKeys(nodes') = NodeKeys(nodes) \ Cascade(nodes, ret'.key)
              /\ total_size_bytes'
                     = total_size_bytes - SizeOfKeys(nodes, Cascade(nodes, ret'.key))
              /\ ret'.key \notin Range(root_keys')
              /\ \A i \in 1..Len(nodes') :
                     ret'.key \notin Range(nodes'[i].children_keys)]_vars


\* the limits get_lru_nodes is asked with: none, fewer than, as many as and more
\* than the nodes there can be, and the limit of the eviction cycle
Limits == (0..(Cardinality(Keys) + 1)) \cup {LRU_LIMIT}

\* C23: get_lru_nodes(limit) returns min(limit, number of unpinned nodes) nodes of
\* the index, each once, all with refcount 0, in non-decreasing order of
\* access_timestamp, and no unpinned node it leaves out is older than one it returns.
C23_LruNodesOldestFirst ==
    \A limit \in Limits : \A r \in {get_lru_nodes(TheDag, limit)} :
        /\ Len(r) = Min2(limit, Len(Unpinned(nodes)))
        /\ \A i \in 1..Len(r) :
               /\ r[i].refcount = 0
               /\ HasNode(nodes, r[i].cache_key) /\ get_node(nodes, r[i].cache_key) = r[i]
        /\ \A i, j \in 1..Len(r) :
               i < j => /\ r[i].access_timestamp <= r[j].access_timestamp
                        /\ r[i].cache_key # r[j].cache_key
        /\ \A n \in 1..Len(nodes) :
               (nodes[n].refcount = 0 /\ nodes[n].cache_key \notin NodeKeys(r))
                   => \A i \in 1..Len(r) :
                          nodes[n].access_timestamp >= r[i].access_timestamp

\* C23 witness: the index holds two unpinned nodes, the younger of which comes
\* first in the dict, so that the sort and a limit of one both matter.
C23_Witness ==
    \E i, j \in 1..Len(nodes) :
        /\ i < j
        /\ nodes[i].refcount = 0 /\ nodes[j].refcount = 0
        /\ nodes[i].access_timestamp > nodes[j].access_timestamp
        /\ get_lru_nodes(TheDag, 1) = <<nodes[j]>>


\* n calls of increment_refcount on the node of key k
RECURSIVE PinTimes(_, _, _)
PinTimes(d, k, n) ==
    IF n = 0 THEN d ELSE PinTimes(increment_refcount(d, k).dag, k, n - 1)

\* n calls of decrement_refcount on the node of key k; the first that raises
\* ends them
RECURSIVE UnpinTimes(_, _, _)
UnpinTimes(o, k, n) ==
    IF n = 0 \/ o.exc # "none" THEN o
    ELSE UnpinTimes(decrement_refcount(o.dag, k), k, n - 1)

\* C24: no node has a negative refcount; decrement_refcount on a node whose
\* refcount is 0 raises and leaves the refcount at 0; and after n increments
\* followed by n decrements of an evictable node none of the calls has raised,
\* the refcount is 0 and the node is an eviction candidate again.
C24_RefcountNeverNegative ==
    \A i \in 1..Len(nodes) : \A k \in {nodes[i].cache_key} :
        /\ nodes[i].refcount >= 0
        /\ nodes[i].refcount = 0 =>
               /\ decrement_refcount(TheDag, k).exc = "ValueError"
               /\ get_node(decrement_refcount(TheDag, k).dag.nodes, k).refcount = 0
               /\ \A n \in 1..MaxPins :
                      \A o \in {UnpinTimes(Outcome(PinTimes(TheDag, k, n), "none"), k, n)} :
                          /\ get_node(PinTimes(TheDag, k, n).nodes, k).refcount = n
                          /\ o.exc = "none"
                          /\ get_node(o.dag.nodes, k).refcount = 0
                          /\ k \in NodeKeys(get_lru_nodes(o.dag, LRU_LIMIT))

\* C24 witness: decrement_refcount has just been refused (some node has refcount
\* 0) in an index where another node is pinned.
C24_Witness ==
    /\ ret.op = "decrement_refcount" /\ ret.outcome = "ValueError"
    /\ \E i \in 1..Len(nodes) : nodes[i].refcount = 0
    /\ \E i \in 1..Len(nodes) : nodes[i].refcount > 0


\* C25: write_cache with a payload longer than the maximum segment size raises
\* ValueError and leaves the index (nodes, root_keys, total size) and the
\* segment files as they were: nothing is evicted, created or inserted.
C25_OversizeWriteChangesNothing ==
    [][(ret'.op = "write_cache" /\ Len(ret'.data) > MAX_SEGMENT_BYTES)
           => /\ ret'.outcome = "ValueError"
              /\ UNCHANGED <<nodes, root_keys, total_size_bytes, files>>]_vars

\* C25 witness: an oversize write has just been refused while the total is above
\* the budget and an unpinned node's segment is stored, so an eviction cycle
\* would have had work to do.
C25_Witness ==
    /\ ret.op = "write_cache" /\ ret.outcome = "ValueError"
    /\ Len(ret.data) > MAX_SEGMENT_BYTES
    /\ OverBudget
    /\ \E i \in 1..Len(nodes) : nodes[i].refcount = 0 /\ Exists(files, nodes[i].cache_key)


\* C26: a process_request whose token sequence is longer than
\* MAX_TOKENS_PER_REQUEST raises, and leaves the index, the segment files and
\* every entry of metrics (request, hit and miss counts, latency list) as
\* they were.
C26_OverlongRequestChangesNothing ==
    [][(ret'.op = "process_request" /\ Len(ret'.data) > MAX_TOKENS_PER_REQUEST)
           => /\ ret'.outcome = "ValueError"
              /\ UNCHANGED <<nodes, root_keys, total_size_bytes, files, metrics>>]_vars

\* C27: a process_request that hits returns, with the metadata, the zero-copy
\* view (an item of its result is the mmap), and adds one to cache_hits and
\* COMPUTE_MS_PER_TOKEN times the number of tokens to total_compute_saved_ms.
C27_HitReturnsViewAndCounts ==
    [][(ret'.op = "process_request" /\ ret'.outcome = "hit")
           => /\ \E i \in 1..Len(ret'.value) : ret'.value[i].type = "mmap"
              /\ \E i \in 1..Len(ret'.value) : ret'.value[i].name = "cache_hit"
              /\ metrics'.cache_hits = metrics.cache_hits + 1
              /\ metrics'.total_compute_saved_ms
                     = metrics.total_compute_saved_ms
                           + COMPUTE_MS_PER_TOKEN * Len(ret'.data)]_vars

\* the latency a returned process_request reported
LatencyOf(call) == call.value[CHOOSE i \in 1..Len(call.value) :
                                  call.value[i].name = "latency_ms"].value

\* C28: after every process_request the latency list holds at most
\* MAX_LATENCY_SAMPLES samples; a request that returns leaves in it the most
\* recent samples, its own last, in the order they arrived.
C28_LatencyWindowBounded ==
    [][ret'.op = "process_request" =>
           /\ Len(metrics'.p95_latency_ms) <= MAX_LATENCY_SAMPLES
           /\ ret'.outcome \in {"hit", "miss"} =>
                  \A all \in {Append(metrics.p95_latency_ms, LatencyOf(ret'))} :
                      /\ Len(metrics'.p95_latency_ms)
                             = Min2(MAX_LATENCY_SAMPLES, Len(all))
                      /\ \A i \in 1..Len(metrics'.p95_latency_ms) :
                             metrics'.p95_latency_ms[i]
                                 = all[Len(all) - Len(metrics'.p95_latency_ms) + i]]_vars

\* C28 witness: more requests have returned than the list holds samples, the
\* list is full, and its oldest and newest samples differ.
C28_Witness ==
    /\ ret.op = "process_request" /\ ret.outcome \in {"hit", "miss"}
    /\ metrics.cache_hits + metrics.cache_misses > MAX_LATENCY_SAMPLES
    /\ Len(metrics.p95_latency_ms) = MAX_LATENCY_SAMPLES
    /\ metrics.p95_latency_ms[1] # metrics.p95_latency_ms[MAX_LATENCY_SAMPLES]
    /\ metrics.p95_latency_ms[MAX_LATENCY_SAMPLES] = LatencyOf(ret)


\* C21: a process_request whose lookup takes longer than the timeout, made on an
\* index whose total is exact, returns a miss and leaves the index sound: one
\* node at most for the key, get_total_size_bytes() equal to the sum of the
\* node sizes, and the mapping the lookup returned, if any, closed.
C21_TimedOutLookupKeepsIndex ==
    get_total_size_bytes(TheDag) = SumSizes(nodes) =>
        \A tokens \in RequestSeqs, data \in Computed :
        \A io_read \in {"ok", "OSError", "mmap"}, io_write \in {"ok", "OSError"} :
        \A r \in {process_request(TheDag, files, tokens, FALSE, data, now,
                                   io_read, io_write, TRUE)} :
            r.exc = "none" =>
                /\ ~r.hit
                /\ \A k \in Keys :
                       Cardinality({i \in 1..Len(r.dag.nodes) :
                                       r.dag.nodes[i].cache_key = k}) <= 1
                /\ get_total_size_bytes(r.dag) = SumSizes(r.dag.nodes)
                /\ LookupMapping(TheDag, files, tokens, FALSE, now, io_read, TRUE)
                       \in {"none", "closed"}


\* C29: every descriptor a read_cache call opens is closed exactly once by the
\* time the call returns, on every path: between calls no descriptor of
\* read_cache is open, and no close was given a descriptor that was not open.
C29_DescriptorsClosedOnce == fds = NoFds

\* C29 witness: a read_cache has just returned a mapping, which its caller
\* holds, after the descriptor it was made from was opened and closed.
C29_Witness ==
    /\ ret.op = "read_cache" /\ ret.outcome = "hit"
    /\ \E id \in MmapIds : mmaps[id] = [key |-> ret.key, closed |-> FALSE]
    /\ FdEvents(TheDag, files, ret.key, "ok")
           = <<FdEvent("open", "f"), FdEvent("close", "f"),
               FdEvent("open", "fd"), FdEvent("close", "fd")>>

\* C30: a mapping read_cache created is in open_mmaps for as long as it is not
\* closed, and right after _cleanup_all_mmaps none of them is open, those the
\* caller had closed before among them.
C30_MappingsTrackedAndCleaned ==
    /\ \A id \in MmapIds :
           (mmaps[id] # NoMmap /\ ~mmaps[id].closed) => id \in open_mmaps
    /\ ret.op = "_cleanup_all_mmaps" =>
           \A id \in MmapIds : mmaps[id] = NoMmap \/ mmaps[id].closed

\* C30 witness: _cleanup_all_mmaps has just run over as many mappings as
\* callers hold at a time, all of them tracked.
C30_Witness ==
    /\ ret.op = "_cleanup_all_mmaps"
    /\ \A id \in MmapIds : mmaps[id] # NoMmap /\ mmaps[id].closed /\ id \in open_mmaps


----------------------------------------------------------------------------
\* C31: on no path of the handler's construction is a credential or secret
\* taken from an environment variable: the credential the Vault client holds
\* comes from the service account login and the HMAC key from Vault
C31_NoSecretFromEnvironment ==
    /\ handler.credential \in {"none", "serviceaccount"}
    /\ handler.hmac_key \in {"none", "vault"}


\* no request for key k is between its lookup and its write
Settled(k) == \A th \in Threads : inflight[th] = Idle \/ inflight[th].key # k

\* C32: requests for the same token multiset that run concurrently and both
\* miss leave the cache deduplicated: once they have returned, the key has one
\* node, one segment file, one entry in root_keys, and its size is in the total
\* once
C32_ConcurrentMissesDeduplicated ==
    \A k \in CacheKeys :
        Settled(k) /\ HasNode(nodes, k)
            => /\ Count(nodes, get_node(nodes, k)) = 1
               /\ Exists(files, k)
               /\ Count(root_keys, k) = 1
               /\ total_size_bytes = SumSizes(nodes)


\* C33: in every reachable state of the index root_keys has no duplicates and
\* each of its keys names a node without parent; every key in a node's
\* children_keys names a node whose parent_key is that node; and every node
\* whose parent exists is in that parent's children_keys
C33_LinksConsistent ==
    /\ \A k \in Range(root_keys) :
           /\ Count(root_keys, k) = 1
           /\ HasNode(nodes, k)
           /\ get_node(nodes, k).parent_key = None
    /\ \A i \in 1..Len(nodes) : \A c \in Range(nodes[i].children_keys) :
           /\ HasNode(nodes, c)
           /\ get_node(nodes, c).parent_key = nodes[i].cache_key
    /\ \A i \in 1..Len(nodes) :
           nodes[i].parent_key # None /\ HasNode(nodes, nodes[i].parent_key)
               => nodes[i].cache_key \in Range(get_node(nodes, nodes[i].parent_key).children_keys)


\* C34: when an eviction cycle or a corruption purge takes nodes out of the
\* index, the node it removes and every descendant the cascade removes with
\* it, no segment file remains for any key that was dropped
C34_CascadeDeletesFiles ==
    [][ret'.op \in {"_enforce_cache_limit", "write_cache", "read_cache"}
           => \A k \in Keys :
                  HasNode(nodes, k) /\ ~HasNode(nodes', k) => ~Exists(files', k)]_vars


\* C35: a write_cache(K, P, parent) whose index insert is refused, the parent
\* being absent or having MAX_FANOUT children, raises that error to its caller
\* and leaves no segment file and no node for K (a ValueError of a write whose
\* data fits a segment is the refusal of add_node)
C35_RefusedInsertLeavesNothing ==
    [][/\ ret'.op = "write_cache"
       /\ ret'.outcome = "ValueError"
       /\ Len(ret'.data) <= MAX_SEGMENT_BYTES
       => /\ ~Exists(files', ret'.key)
          /\ ~HasNode(nodes', ret'.key)]_vars

\* C36: a read_cache(K) that returns the mapping makes K the most recently used
\* entry: K, unpinned, is the last node of get_lru_nodes and an eviction cycle
\* that drops K has dropped every other unpinned node; a read that returns
\* None changes the last-access time of no node it leaves in the index
C36_ReadMakesMostRecentlyUsed ==
    [][ret'.op = "read_cache"
           => IF ret'.outcome = "hit"
              THEN ~Pinned(nodes', ret'.key)
                       => /\ get_lru_nodes(TheDag', LRU_LIMIT)[Len(Unpinned(nodes'))].cache_key
                                 = ret'.key
                          /\ \E e \in {_enforce_cache_limit(TheDag', files')} :
                                 ~HasNode(e.dag.nodes, ret'.key)
                                     => Unpinned(e.dag.nodes) = <<>>
              ELSE \A k \in Keys :
                       HasNode(nodes', k)
                           => get_node(nodes', k).access_timestamp
                                  = get_node(nodes, k).access_timestamp]_vars


\* C37: every process_request counts as one hit or one miss: after any
\* sequence of requests, those with force_cold_start and those refused for
\* their size included, cache_hits + cache_misses = total_requests (so that
\* hits / total_requests, the reported rate, is hits over hits plus misses)
C37_EveryRequestHitOrMiss ==
    metrics.cache_hits + metrics.cache_misses = metrics.total_requests


\* the keys in the children_keys of the node of k
ChildKeys(ns, k) == IF HasNode(ns, k) THEN Range(get_node(ns, k).children_keys) ELSE {}

\* S and what n steps along children links reach from S
RECURSIVE Reach(_, _, _)
Reach(ns, S, n) ==
    IF n = 0 THEN S ELSE Reach(ns, S \cup UNION {ChildKeys(ns, x) : x \in S}, n - 1)

\* the keys reached from k along one children link or more
Descendants(ns, k) == Reach(ns, ChildKeys(ns, k), Cardinality(Keys))

\* C38: in every state reached by add_node and remove_node, re-adding an
\* existing key under one of its own descendants included, no node reaches
\* itself along children links, and remove_node of a key that is not pinned
\* ends: its cascade returns, with the key out of the index
C38_ChildrenAcyclic ==
    /\ \A k \in Keys : k \notin Descendants(nodes, k)
    /\ \A k \in Keys : \E o \in {remove_node(TheDag, k)} :
           ~Pinned(nodes, k) => o.exc = "none" /\ ~HasNode(o.dag.nodes, k)

\* a key was added as a root, another key under it, and the first key again
\* under the second
C38_Witness ==
    /\ ret.op = "add_node" /\ ret.outcome = "none"
    /\ Len(nodes) = 2
    /\ Count(root_keys, ret.key) = 1
    /\ total_size_bytes = 3 * Min(DirectSizes)
    /\ \E p \in Keys \ {ret.key} :
           /\ HasNode(nodes, p)
           /\ get_node(nodes, ret.key).parent_key = p
           /\ get_node(nodes, p).parent_key = ret.key
           /\ ret.key \in ChildKeys(nodes, p)


\* C39: a write_cache called while the tracked total is at or below the budget
\* evicts nothing: every node and every file there before the call is there
\* after it, and no node or file is added but those of the written key
C39_WriteWithinBudgetKeepsAll ==
    [][ret'.op = "write_cache" /\ get_total_size_bytes(TheDag) <= MAX_TOTAL_CACHE_BYTES
           => \A k \in Keys :
                  /\ HasNode(nodes, k) => HasNode(nodes', k)
                  /\ Exists(files, k) => Exists(files', k)
                  /\ k # ret'.key => (HasNode(nodes', k) => HasNode(nodes, k))
                  /\ k # ret'.key => (Exists(files', k) => Exists(files, k))]_vars

==========================================================================
